---- MODULE Spec2Model ----
(***************************************************************************)
(* Model of src/server.js: the run orchestrator runOnce(), the log writer  *)
(* insertLogs(), the memoized storage handle getPool(), the scheduler      *)
(* runLoop(), the routes GET /health and GET /status, and the rendering    *)
(* buildProgressBar().                                                     *)
(*                                                                         *)
(* JavaScript runs every callback to completion, so one action of the      *)
(* model is one stretch of code between two awaits that wait for I/O (or,  *)
(* for the first await of runOnce, for the microtask queue).  A            *)
(* continuation that follows an I/O completion through microtasks only is  *)
(* part of the action of that completion.                                  *)
(***************************************************************************)
EXTENDS Integers, Sequences, FiniteSets, TLC

\* ------------------------------------------------------------------ bounds
MaxCampaigns == 2        \* longest campaign list the storage returns
MaxLogs == 2             \* longest logs array the remote API returns
MaxClock == 1            \* last instant of the wall clock
NumExt == 1              \* callers of runOnce() other than the scheduler
BarTotal == 100          \* campaigns of the run whose progress is rendered

\* --------------------------------------------------------------- constants
Null == -1               \* JavaScript null / undefined
DefaultWidth == 20       \* buildProgressBar: width || 20
OffsetHours == 3         \* toSqlDateTime: d.getHours() - 3
MinDelay == 1            \* setTimeout never fires before one clock unit

Sched == 0               \* the caller that is runLoop
Callers == 0 .. NumExt                   \* 1 .. NumExt are other callers
CampaignIds == {Null, 0, 1}              \* campaign?.id of a fetched row: absent,
                                         \* empty (falsy but not null) or a usable id
RawCreatedAt == {Null, 4, 5}             \* l?.createdAt of a raw log (hours)
LogCounts == 0 .. MaxLogs                \* lengths of the logs array of a response

RECURSIVE SeqsUpTo(_, _)
SeqsUpTo(S, n) ==
    IF n = 0 THEN {<<>>}
    ELSE LET shorter == SeqsUpTo(S, n - 1)
         IN shorter \cup {Append(s, x) : s \in {t \in shorter : Len(t) = n - 1}, x \in S}

CampaignLists == SeqsUpTo(CampaignIds, MaxCampaigns)   \* what the storage may return

VARIABLES
    status,        \* the process-wide status object
    poolPromise,   \* "null", "pending", "resolved" or "rejected"
    token,         \* config.api.token is set
    clock,         \* the wall clock read by nowIso()
    pc,            \* per caller: where its runOnce() invocation stands
    loc,           \* per caller: the locals of its runOnce() invocation
    result,        \* per caller: how its last runOnce() invocation ended
    timerDue,      \* instant before which the pending setTimeout cannot fire
    reply          \* the HTTP response a route handler has just written

vars == <<status, poolPromise, token, clock, pc, loc, result, timerDue, reply>>

\* ----------------------------------------------------------- pure helpers
nowIso == clock

\* an error message as written into status.lastError
Err(kind, id, msg) == [kind |-> kind, id |-> id, msg |-> msg]
NoError == Err("null", Null, "")

Repeat(c, n) == [k \in 1 .. n |-> c]

\* Math.round of the non-negative rational num / den
Round(num, den) == (2 * num + den) \div (2 * den)

Max(a, b) == IF a >= b THEN a ELSE b

\* Math.floor in place of Math.round
buildProgressBarFloors(percent, width) ==
    LET size == IF width = Null \/ width = 0 THEN DefaultWidth ELSE width
        filled == (percent * size) \div 100
        empty == Max(size - filled, 0)
    IN <<"[">> \o Repeat("#", filled) \o Repeat("-", empty) \o <<"]">>

buildProgressBar(percent, width) ==
    LET size == IF width = Null \/ width = 0 THEN DefaultWidth ELSE width
        filled == Round(percent * size, 100)
        empty == Max(size - filled, 0)
    IN <<"[">> \o Repeat("#", filled) \o Repeat("-", empty) \o <<"]">>

toSqlDateTime(iso) == IF iso = Null THEN Null ELSE iso - OffsetHours

\* lines 110-118: the mapping of one raw log l, of which the model keeps createdAt
mapLog(l) == [createdAt |-> toSqlDateTime(l)]

InitStatus ==
    [running |-> FALSE,
     lastRunStartedAt |-> Null,
     lastRunFinishedAt |-> Null,
     lastSuccessAt |-> Null,
     lastError |-> NoError,
     lastErrorAt |-> Null,
     campaignsTotal |-> 0,
     campaignsProcessed |-> 0,
     logsInserted |-> 0,
     logInsertErrors |-> 0,
     currentCampaignId |-> Null,
     progressPercent |-> 0,
     progressBar |-> <<>>,
     lastLogCreatedAt |-> Null]

\* locals of one runOnce() invocation (pending is the number of mapped
\* records insertLogs has still to insert; the record itself is drawn when
\* its insert settles, the first time the code reads it), and its history:
\* attempts lists the campaign indices whose processing was attempted, failed
\* those that threw inside the inner try, apiCalls the campaign ids the
\* remote API was called with; successAtStart is status.lastSuccessAt as the
\* run found it; mapped counts the records mapLogs returned over the run,
\* okInserts and badInserts the inserts that succeeded and that threw; trace
\* lists, in the order they happen, the start of each campaign's processing
\* (line 208) and each assignment to status.campaignsProcessed (line 227)
InitLoc ==
    [runHadError |-> FALSE,
     campaigns |-> <<>>,
     fetched |-> FALSE,
     i |-> 0,
     pending |-> 0,
     inserted |-> 0,
     attempts |-> <<>>,
     failed |-> <<>>,
     apiCalls |-> <<>>,
     successAtStart |-> Null,
     mapped |-> 0,
     okInserts |-> 0,
     badInserts |-> 0,
     trace |-> <<>>]

\* no response is on its way
NoReply == [route |-> "none", code |-> 0, body |-> <<>>]

Init ==
    /\ status = InitStatus
    /\ poolPromise = "null"
    /\ token \in BOOLEAN
    /\ clock = 0
    /\ pc = [p \in Callers |-> "idle"]
    /\ loc = [p \in Callers |-> InitLoc]
    /\ result = [p \in Callers |-> "none"]
    /\ timerDue = Null
    /\ reply = NoReply

\* ------------------------------------------------- runOnce, piece by piece
\* only null and undefined count as a missing id
FalsyNullOnly(v) == v = Null

\* !v, for the values the model has: null and undefined, and 0 (which also
\* stands for the empty string)
Falsy(v) == v = Null \/ v = 0

\* the guard never holds a call back
GuardOff(st) == FALSE

\* line 177: the single-flight guard
Guard(st) == st.running

\* the overlap branch taken after the counters were cleared
SkipRunClears(st) ==
    [st EXCEPT !.lastError = Err("Skipped: previous run still in progress", Null, ""),
               !.lastErrorAt = nowIso,
               !.currentCampaignId = Null,
               !.campaignsProcessed = 0,
               !.logsInserted = 0]

\* lines 178-181: the overlap branch
SkipRun(st) ==
    [st EXCEPT !.lastError = Err("Skipped: previous run still in progress", Null, ""),
               !.lastErrorAt = nowIso]

\* the reset without line 186
ResetRunKeepsFinished(st) ==
    [st EXCEPT !.running = TRUE,
               !.lastRunStartedAt = nowIso,
               !.currentCampaignId = Null,
               !.campaignsProcessed = 0,
               !.campaignsTotal = 0,
               !.logsInserted = 0,
               !.logInsertErrors = 0,
               !.progressPercent = 0,
               !.progressBar = buildProgressBar(0, Null),
               !.lastError = NoError,
               !.lastErrorAt = Null]

\* lines 184-195: the reset
ResetRun(st) ==
    [st EXCEPT !.running = TRUE,
               !.lastRunStartedAt = nowIso,
               !.lastRunFinishedAt = Null,
               !.currentCampaignId = Null,
               !.campaignsProcessed = 0,
               !.campaignsTotal = 0,
               !.logsInserted = 0,
               !.logInsertErrors = 0,
               !.progressPercent = 0,
               !.progressBar = buildProgressBar(0, Null),
               !.lastError = NoError,
               !.lastErrorAt = Null]

\* the outer catch without its lastRunFinishedAt assignment
TopLevelCatchNoFinish(st, msg) ==
    [st EXCEPT !.lastError = Err(msg, Null, ""),
               !.lastErrorAt = nowIso]

\* lines 241-245: the outer catch
TopLevelCatch(st, msg) ==
    [st EXCEPT !.lastError = Err(msg, Null, ""),
               !.lastErrorAt = nowIso,
               !.lastRunFinishedAt = nowIso]

\* no finally clause
FinallyMissing(st) == st

\* lines 246-248: the finally clause
Finally(st) == [st EXCEPT !.running = FALSE]

\* the outer catch rethrows
CatchRethrows == "raised"

\* how an invocation whose outer catch ran settles: the catch does not rethrow
CatchOutcome == "aborted"

\* the end of the try block clears the error of a run without failed campaign
FinalizeClearsError(st, runHadError) ==
    [st EXCEPT !.lastRunFinishedAt = nowIso,
               !.lastSuccessAt = IF ~runHadError THEN nowIso ELSE @,
               !.lastError = IF ~runHadError THEN NoError ELSE @,
               !.lastErrorAt = IF ~runHadError THEN Null ELSE @]

\* lines 237-240: the end of the try block
Finalize(st, runHadError) ==
    [st EXCEPT !.lastRunFinishedAt = nowIso,
               !.lastSuccessAt = IF ~runHadError THEN nowIso ELSE @]

\* lines 220-224: the per-campaign catch
CampaignCatch(st, campaignId, msg) ==
    [st EXCEPT !.lastError = Err("Campaign failed", campaignId, msg),
               !.lastErrorAt = nowIso]

\* the per-campaign catch forgets to flag the run
CampaignCatchFlagKept(runHadError) == runHadError

\* line 221
CampaignCatchFlag(runHadError) == TRUE

\* the entries of a run's trace
Attempt(k) == [ev |-> "attempt", n |-> k]
Processed(n) == [ev |-> "processed", n |-> n]

\* line 227 counting from a 1-based index
AfterCampaignFromOne(st, i) ==
    LET processed == i + 2
        percent == IF st.campaignsTotal # 0
                   THEN Round(processed * 100, st.campaignsTotal)
                   ELSE 100
    IN [st EXCEPT !.campaignsProcessed = processed,
                  !.progressPercent = percent,
                  !.progressBar = buildProgressBar(percent, Null)]

\* lines 227-231: the bookkeeping after each campaign
AfterCampaign(st, i) ==
    LET processed == i + 1
        percent == IF st.campaignsTotal # 0
                   THEN Round(processed * 100, st.campaignsTotal)
                   ELSE 100
    IN [st EXCEPT !.campaignsProcessed = processed,
                  !.progressPercent = percent,
                  !.progressBar = buildProgressBar(percent, Null)]

\* the run's trace after the bookkeeping left status as st
Booked(st, l) == [l EXCEPT !.trace = Append(@, Processed(st.campaignsProcessed))]

\* a frame: the status, the locals, and where the invocation stands
Frame(st, l, where, res) == [st |-> st, l |-> l, pc |-> where, result |-> res]

\* the outer catch and finally, from wherever the try block threw
Abort(st, l, msg) == Frame(Finally(TopLevelCatch(st, msg)), l, "settled", CatchOutcome)

RECURSIVE RunLoopFrom(_, _)

\* lines 207-240: the campaign loop from index l.i (0-based) up to its next
\* await, or through the end of the try block and the finally clause
LoopStep(st, l) ==
    IF l.i >= Len(l.campaigns)
    THEN Frame(Finally(Finalize(st, l.runHadError)), l, "settled", "finished")
    ELSE LET campaignId == l.campaigns[l.i + 1]
             st1 == [st EXCEPT !.currentCampaignId =
                                   IF Falsy(campaignId) THEN Null ELSE campaignId]
             l1 == [l EXCEPT !.attempts = Append(@, l.i + 1),
                             !.trace = Append(@, Attempt(l.i + 1))]
             st2 == AfterCampaign(CampaignCatch(st1, campaignId, "Campaign missing id"), l.i)
         IN IF Falsy(campaignId)
            THEN RunLoopFrom(
                     st2,
                     [Booked(st2, l1) EXCEPT !.runHadError = CampaignCatchFlag(@), !.i = l.i + 1,
                                             !.failed = Append(@, l.i + 1)])
            ELSE Frame(st1, [l1 EXCEPT !.apiCalls = Append(@, campaignId)], "awaitLogs", "none")

\* the loop goes on from the status st and the locals l, each computed once
RunLoopFrom(st, l) == CHOOSE f \in {LoopStep(s, m) : s \in {st}, m \in {l}} : TRUE

\* line 219 with = in place of +=: each campaign overwrites the run's count
CampaignDoneOverwrites(st, l) ==
    LET st1 == AfterCampaign([st EXCEPT !.logsInserted = l.inserted], l.i)
    IN RunLoopFrom(st1, [Booked(st1, l) EXCEPT !.i = @ + 1, !.pending = 0, !.inserted = 0])

\* lines 219, 227-235: insertLogs has returned; finish this campaign, go on
CampaignDone(st, l) ==
    LET st1 == AfterCampaign([st EXCEPT !.logsInserted = @ + l.inserted], l.i)
    IN RunLoopFrom(st1, [Booked(st1, l) EXCEPT !.i = @ + 1, !.pending = 0, !.inserted = 0])

\* no inner try: the failure of one campaign reaches the outer catch
CampaignFailedAborts(st, l, msg) == Abort(st, l, msg)

\* lines 220-235: fetchLogsForCampaign threw; catch, finish this campaign, go on
CampaignFailed(st, l, msg) ==
    LET st1 == AfterCampaign(CampaignCatch(st, l.campaigns[l.i + 1], msg), l.i)
    IN RunLoopFrom(st1,
                   [Booked(st1, l) EXCEPT !.runHadError = CampaignCatchFlag(@), !.i = @ + 1,
                                          !.failed = Append(@, l.i + 1),
                                          !.pending = 0, !.inserted = 0])

\* lines 159-165: one insert succeeded
InsertSucceeded(st, item) ==
    IF item.createdAt # Null
       /\ (st.lastLogCreatedAt = Null \/ item.createdAt > st.lastLogCreatedAt)
    THEN [st EXCEPT !.lastLogCreatedAt = item.createdAt]
    ELSE st

\* lines 166-170: one insert failed
InsertCatch(st, msg) ==
    [st EXCEPT !.logInsertErrors = @ + 1,
               !.lastError = Err("Insert failed", Null, msg),
               !.lastErrorAt = nowIso]

\* lines 156-173: after the insert of one item settled, the next item's
\* insert is awaited, or insertLogs returns
AfterInsert(st, l) ==
    IF l.pending > 1
    THEN Frame(st, [l EXCEPT !.pending = @ - 1], "awaitInsert", "none")
    ELSE CampaignDone(st, l)

\* no try inside insertLogs: a failed insert fails the whole campaign
InsertFailedAborts(st, l, msg) == CampaignFailed(st, l, msg)

\* lines 166-172: the insert of the current item threw; catch it and go on
InsertFailed(st, l, msg) ==
    AfterInsert(InsertCatch(st, msg), [l EXCEPT !.badInserts = @ + 1])

\* lines 159-165, 172: the insert of item succeeded; go on
InsertDone(st, l, item) ==
    AfterInsert(InsertSucceeded(st, item),
                [l EXCEPT !.inserted = @ + 1, !.okInserts = @ + 1])

\* lines 216-218, 155-156: the response of the remote API for the current
\* campaign holds n logs; they are mapped and insertLogs awaits its first
\* insert, or returns 0 for an empty list
LogsArrived(st, l, n) ==
    LET l1 == [l EXCEPT !.pending = n, !.inserted = 0, !.mapped = @ + n]
    IN IF n = 0
       THEN CampaignDone(st, l1)
       ELSE Frame(st, l1, "awaitInsert", "none")

\* getPool connects again after a failed connection
getPoolRetries(memo) == IF memo \in {"null", "rejected"} THEN "pending" ELSE memo

\* lines 74-79: getPool, as far as the memo goes
getPool(memo) == IF memo = "null" THEN "pending" ELSE memo

\* the storage connection is opened before the credential is looked at
CallRunOnceConnectsFirst(st, l, memo) ==
    IF Guard(st)
    THEN Frame(SkipRun(st), InitLoc, "settled", "skipped") @@ [memo |-> memo]
    ELSE LET st1 == ResetRun(st)
             l1 == [InitLoc EXCEPT !.successAtStart = st.lastSuccessAt]
         IN IF ~token
            THEN Abort(st1, l1, "Missing ZAP_API_TOKEN") @@ [memo |-> getPool(memo)]
            ELSE Frame(st1, l1, "awaitPool", "none") @@ [memo |-> getPool(memo)]

\* lines 176-203: runOnce from its call to its first await (or its return)
CallRunOnce(st, l, memo) ==
    IF Guard(st)
    THEN Frame(SkipRun(st), InitLoc, "settled", "skipped") @@ [memo |-> memo]
    ELSE LET st1 == ResetRun(st)
             l1 == [InitLoc EXCEPT !.successAtStart = st.lastSuccessAt]
         IN IF ~token
            THEN Abort(st1, l1, "Missing ZAP_API_TOKEN") @@ [memo |-> memo]
            ELSE Frame(st1, l1, "awaitPool", "none") @@ [memo |-> getPool(memo)]

\* the frame f, computed once, becomes the state of caller p
Install(p, f) ==
    \E g \in {f} :
        /\ status' = g.st
        /\ loc' = [loc EXCEPT ![p] = g.l]
        /\ pc' = [pc EXCEPT ![p] = g.pc]
        /\ result' = [result EXCEPT ![p] = g.result]

InRun == {"awaitPool", "awaitCampaigns", "awaitLogs", "awaitInsert"}

\* the event loop is free to run a timer or I/O callback: no caller's
\* continuation is waiting in the microtask queue (the code that awaits a
\* settled runOnce() resumes before any timer or I/O callback runs), and the
\* response a route handler wrote has left
Quiet ==
    /\ \A p \in Callers : pc[p] # "settled"
    /\ reply.route = "none"

\* ----------------------------------------------------------------- actions
\* lines 264-271: the listen callback calls runLoop, which calls runOnce
Start ==
    /\ Quiet
    /\ pc[Sched] = "idle"
    /\ LET f == CallRunOnce(status, loc[Sched], poolPromise)
       IN Install(Sched, f) /\ poolPromise' = f.memo
    /\ UNCHANGED <<token, clock, timerDue, reply>>

\* runLoop does not await runOnce()
SettledOrRunning(p) == pc[p] \in InRun \cup {"settled"}

\* line 268: await runOnce() resumes once the invocation of p has settled
Settled(p) == pc[p] = "settled"

\* line 269: runOnce settled; runLoop arms the timer unless runOnce rejected
SetTimer ==
    /\ Settled(Sched)
    /\ pc' = [pc EXCEPT ![Sched] = IF result[Sched] = "raised" THEN "dead" ELSE "timer"]
    /\ timerDue' = IF result[Sched] = "raised" THEN timerDue ELSE clock + MinDelay
    /\ loc' = [loc EXCEPT ![Sched] = InitLoc]
    /\ result' = [result EXCEPT ![Sched] = "none"]
    /\ UNCHANGED <<status, poolPromise, token, clock, reply>>

\* line 269: the timer fires and runLoop calls runOnce again
TimerFire ==
    /\ Quiet
    /\ pc[Sched] = "timer"
    /\ clock >= timerDue
    /\ LET f == CallRunOnce(status, loc[Sched], poolPromise)
       IN Install(Sched, f) /\ poolPromise' = f.memo
    /\ timerDue' = Null
    /\ UNCHANGED <<token, clock, reply>>

\* another caller invokes runOnce (the case the guard exists for)
ExtCall(p) ==
    /\ Quiet
    /\ p # Sched
    /\ pc[p] = "idle"
    /\ LET f == CallRunOnce(status, loc[p], poolPromise)
       IN Install(p, f) /\ poolPromise' = f.memo
    /\ UNCHANGED <<token, clock, timerDue, reply>>

\* the other caller's runOnce() promise has settled and its locals are gone
ExtReturn(p) ==
    /\ p # Sched
    /\ pc[p] = "settled"
    /\ pc' = [pc EXCEPT ![p] = "idle"]
    /\ loc' = [loc EXCEPT ![p] = InitLoc]
    /\ result' = [result EXCEPT ![p] = "none"]
    /\ UNCHANGED <<status, poolPromise, token, clock, timerDue, reply>>

\* line 76: sql.connect settles
ConnectOk ==
    /\ Quiet
    /\ poolPromise = "pending"
    /\ poolPromise' = "resolved"
    /\ UNCHANGED <<status, token, clock, pc, loc, result, timerDue, reply>>

ConnectFail ==
    /\ Quiet
    /\ poolPromise = "pending"
    /\ poolPromise' = "rejected"
    /\ UNCHANGED <<status, token, clock, pc, loc, result, timerDue, reply>>

\* lines 203-204: await getPool() resumes with the pool; fetchCampaigns is called
PoolResolved(p) ==
    /\ Quiet
    /\ pc[p] = "awaitPool"
    /\ poolPromise = "resolved"
    /\ pc' = [pc EXCEPT ![p] = "awaitCampaigns"]
    /\ UNCHANGED <<status, poolPromise, token, clock, loc, result, timerDue, reply>>

\* lines 203, 241-248: await getPool() throws
PoolRejected(p) ==
    /\ Quiet
    /\ pc[p] = "awaitPool"
    /\ poolPromise = "rejected"
    /\ Install(p, Abort(status, loc[p], "connect failed"))
    /\ UNCHANGED <<poolPromise, token, clock, timerDue, reply>>

\* lines 204-205: the campaign list arrives; the loop runs to its first await
CampaignsFetched(p) ==
    /\ Quiet
    /\ pc[p] = "awaitCampaigns"
    /\ \E campaigns \in CampaignLists :
          Install(p, RunLoopFrom([status EXCEPT !.campaignsTotal = Len(campaigns)],
                                 [loc[p] EXCEPT !.campaigns = campaigns, !.fetched = TRUE]))
    /\ UNCHANGED <<poolPromise, token, clock, timerDue, reply>>

\* lines 204, 241-248: the campaign-list query throws
CampaignsFailed(p) ==
    /\ Quiet
    /\ pc[p] = "awaitCampaigns"
    /\ Install(p, Abort(status, loc[p], "query failed"))
    /\ UNCHANGED <<poolPromise, token, clock, timerDue, reply>>

\* lines 216-218: the logs of the current campaign arrive and are mapped;
\* insertLogs awaits its first insert, or returns 0 for an empty list
LogsFetched(p) ==
    /\ Quiet
    /\ pc[p] = "awaitLogs"
    /\ \E n \in LogCounts : Install(p, LogsArrived(status, loc[p], n))
    /\ UNCHANGED <<poolPromise, token, clock, timerDue, reply>>

\* lines 216, 220-225: fetchLogsForCampaign throws
LogsFailed(p) ==
    /\ Quiet
    /\ pc[p] = "awaitLogs"
    /\ Install(p, CampaignFailed(status, loc[p], "API error"))
    /\ UNCHANGED <<poolPromise, token, clock, timerDue, reply>>

\* lines 158-165: the insert of the current item succeeds
InsertOk(p) ==
    /\ Quiet
    /\ pc[p] = "awaitInsert"
    /\ \E l \in RawCreatedAt : Install(p, InsertDone(status, loc[p], mapLog(l)))
    /\ UNCHANGED <<poolPromise, token, clock, timerDue, reply>>

\* lines 158, 166-171: the insert of the current item throws
InsertFail(p) ==
    /\ Quiet
    /\ pc[p] = "awaitInsert"
    /\ Install(p, InsertFailed(status, loc[p], "insert error"))
    /\ UNCHANGED <<poolPromise, token, clock, timerDue, reply>>

\* time passes
Tick ==
    /\ Quiet
    /\ clock < MaxClock
    /\ clock' = clock + 1
    /\ UNCHANGED <<status, poolPromise, token, pc, loc, result, timerDue, reply>>

\* lines 252-257: the body of the /health response
healthBody(st) ==
    [ok |-> TRUE,
     running |-> st.running,
     lastRunStartedAt |-> st.lastRunStartedAt,
     lastRunFinishedAt |-> st.lastRunFinishedAt]

\* GET /health answers only once no run is in progress
GetHealthAfterRun ==
    /\ Quiet
    /\ ~status.running
    /\ reply' = [route |-> "/health", code |-> 200, body |-> healthBody(status)]
    /\ UNCHANGED <<status, poolPromise, token, clock, pc, loc, result, timerDue>>

\* lines 251-258: GET /health
GetHealth ==
    /\ Quiet
    /\ reply' = [route |-> "/health", code |-> 200, body |-> healthBody(status)]
    /\ UNCHANGED <<status, poolPromise, token, clock, pc, loc, result, timerDue>>

\* lines 260-262: GET /status serializes the status object as it is now
GetStatus ==
    /\ Quiet
    /\ reply' = [route |-> "/status", code |-> 200, body |-> status]
    /\ UNCHANGED <<status, poolPromise, token, clock, pc, loc, result, timerDue>>

\* res.json has sent the response
ReplySent ==
    /\ reply.route # "none"
    /\ reply' = NoReply
    /\ UNCHANGED <<status, poolPromise, token, clock, pc, loc, result, timerDue>>

RunStep(p) ==
    \/ PoolResolved(p)
    \/ PoolRejected(p)
    \/ CampaignsFetched(p)
    \/ CampaignsFailed(p)
    \/ LogsFetched(p)
    \/ LogsFailed(p)
    \/ InsertOk(p)
    \/ InsertFail(p)

\* the program as deployed: runLoop is the only caller of runOnce
SchedNext ==
    \/ Start
    \/ SetTimer
    \/ TimerFire
    \/ ConnectOk
    \/ ConnectFail
    \/ RunStep(Sched)
    \/ Tick

\* the program as deployed, with its HTTP routes
ServerNext ==
    \/ SchedNext
    \/ GetHealth
    \/ GetStatus
    \/ ReplySent

\* runOnce under any callers
Next ==
    \/ Start
    \/ SetTimer
    \/ TimerFire
    \/ \E p \in Callers : ExtCall(p)
    \/ \E p \in Callers : ExtReturn(p)
    \/ ConnectOk
    \/ ConnectFail
    \/ \E p \in Callers : RunStep(p)
    \/ Tick
    \/ GetHealth
    \/ GetStatus
    \/ ReplySent

Spec == Init /\ [][Next]_vars

SchedSpec == Init /\ [][SchedNext]_vars

ServerSpec == Init /\ [][ServerNext]_vars

\* ------------------------------------------- the progress of a long run
\* lines 184-205: the first run of the process has fetched a list of
\* BarTotal campaigns and is about to enter its loop (the list itself and
\* the logs are left out)
BarInit ==
    /\ token = TRUE
    /\ poolPromise = "resolved"
    /\ clock = 0
    /\ status = [ResetRun(InitStatus) EXCEPT !.campaignsTotal = BarTotal]
    /\ loc = [p \in Callers |->
                 IF p = Sched THEN [InitLoc EXCEPT !.fetched = TRUE] ELSE InitLoc]
    /\ pc = [p \in Callers |-> IF p = Sched THEN "awaitLogs" ELSE "idle"]
    /\ result = [p \in Callers |-> "none"]
    /\ timerDue = Null
    /\ reply = NoReply

\* lines 227-231: the bookkeeping after one more campaign of that run
BarStep ==
    /\ status.campaignsProcessed < status.campaignsTotal
    /\ status' = AfterCampaign(status, loc[Sched].i)
    /\ loc' = [loc EXCEPT ![Sched].i = @ + 1]
    /\ UNCHANGED <<poolPromise, token, clock, pc, result, timerDue, reply>>

BarSpec == BarInit /\ [][BarStep]_vars

\* the deployed program when every I/O call returns or fails, callbacks and
\* timers are run by the event loop, and time passes
FairSchedSpec ==
    /\ SchedSpec
    /\ WF_vars(Start)
    /\ WF_vars(SetTimer)
    /\ WF_vars(TimerFire)
    /\ WF_vars(ConnectOk \/ ConnectFail)
    /\ WF_vars(RunStep(Sched))
    /\ WF_vars(Tick)

\* ------------------------------------------------------------------ claims
Running == {p \in Callers : pc[p] \in InRun}

\* every field of the status object but lastError and lastErrorAt
FrameFields ==
    {"running", "lastRunStartedAt", "lastRunFinishedAt", "lastSuccessAt",
     "campaignsTotal", "campaignsProcessed", "logsInserted", "logInsertErrors",
     "currentCampaignId", "progressPercent", "progressBar", "lastLogCreatedAt"}

\* caller p invokes runOnce() in this step
Calls(p) == pc[p] \in {"idle", "timer"} /\ pc'[p] # pc[p]

\* C1: at most one invocation of runOnce() is past the guard at a time, and
\* status.running is true exactly while one is (between its reset and its
\* final running = false).
SingleFlight ==
    /\ Cardinality(Running) <= 1
    /\ status.running <=> Running # {}

\* C1 witness: one invocation is in its campaign loop while another caller's
\* invocation has just been turned away by the guard.
SingleFlightWitness ==
    \E p, q \in Callers :
        /\ pc[p] = "awaitInsert"
        /\ pc[q] = "settled"
        /\ result[q] = "skipped"

\* C2: an invocation of runOnce() while status.running is true changes only
\* lastError and lastErrorAt, starts no storage or remote-API call (no
\* caller's position changes but the invoker's, which returns at once, and
\* the storage handle is left as it was), and returns without raising.
SkipIsNoOp ==
    [][\A p \in Callers :
          (Calls(p) /\ status.running) =>
              /\ \A f \in FrameFields : status'[f] = status[f]
              /\ status'.lastError.kind = "Skipped: previous run still in progress"
              /\ status'.lastErrorAt = nowIso
              /\ poolPromise' = poolPromise
              /\ \A q \in Callers \ {p} : pc'[q] = pc[q] /\ loc'[q] = loc[q]
              /\ pc'[p] = "settled"
              /\ result'[p] = "skipped"]_vars

\* C2 witness: a call was skipped in the middle of a run that had already
\* processed a campaign and inserted a log.
SkipIsNoOpWitness ==
    \E p \in Callers :
        /\ result[p] = "skipped"
        /\ status.running
        /\ status.campaignsProcessed > 0
        /\ status.logsInserted > 0
        /\ status.lastError.kind = "Skipped: previous run still in progress"

\* the invocation of the scheduler that was running ends in this step
RunEnds == status'.running = FALSE /\ pc'[Sched] = "settled" /\ result'[Sched] # "skipped"

\* C3: in a run whose campaign list was fetched, every campaign of the list
\* is attempted exactly once, in list order, whichever campaigns fail; each
\* failing campaign is counted in campaignsProcessed, which equals
\* campaignsTotal at run end.
EveryCampaignAttempted ==
    [][/\ (RunEnds /\ loc'[Sched].fetched) =>
              /\ loc'[Sched].attempts = [k \in 1 .. Len(loc'[Sched].campaigns) |-> k]
              /\ status'.campaignsTotal = Len(loc'[Sched].campaigns)
              /\ status'.campaignsProcessed = status'.campaignsTotal
       /\ (pc'[Sched] \in InRun /\ loc'[Sched].fetched) =>
              /\ loc'[Sched].attempts = [k \in 1 .. loc'[Sched].i + 1 |-> k]
              /\ status'.campaignsProcessed = loc'[Sched].i
              /\ \A k \in 1 .. Len(loc'[Sched].failed) :
                     loc'[Sched].failed[k] <= status'.campaignsProcessed]_vars

\* C3 witness: a run over two campaigns has ended; the first campaign failed
\* and the second was still attempted and had a log inserted.
EveryCampaignAttemptedWitness ==
    /\ pc[Sched] = "settled"
    /\ loc[Sched].fetched
    /\ loc[Sched].failed = <<1>>
    /\ loc[Sched].attempts = <<1, 2>>
    /\ loc[Sched].campaigns = <<1, 1>>
    /\ status.logsInserted > 0
    /\ status.campaignsProcessed = 2

\* C4: a failed insert adds exactly 1 to logInsertErrors and nothing to
\* logsInserted, does not make the campaign a failed campaign, and the
\* inserts of the records after it are still attempted: insertLogs leaves a
\* campaign only after the last record of the list.
InsertFailureIsolated ==
    [][/\ InsertFail(Sched) =>
              /\ status'.logInsertErrors = status.logInsertErrors + 1
              /\ \A k \in 1 .. Len(loc'[Sched].failed) :
                     loc'[Sched].failed[k] # loc[Sched].i + 1
              /\ loc'[Sched].runHadError <=> loc'[Sched].failed # <<>>
              /\ IF loc[Sched].pending > 1
                 THEN /\ pc'[Sched] = "awaitInsert"
                      /\ loc'[Sched].pending = loc[Sched].pending - 1
                      /\ loc'[Sched].inserted = loc[Sched].inserted
                      /\ status'.logsInserted = status.logsInserted
                 ELSE status'.logsInserted = status.logsInserted + loc[Sched].inserted
       /\ (pc[Sched] = "awaitInsert" /\ pc'[Sched] # "awaitInsert") =>
              loc[Sched].pending = 1]_vars

\* C4 witness: in one campaign the first insert failed and the second was
\* attempted and succeeded; the run ended without a campaign-level failure.
InsertFailureIsolatedWitness ==
    /\ pc[Sched] = "settled"
    /\ loc[Sched].campaigns = <<1>>
    /\ status.logInsertErrors = 1
    /\ status.logsInserted = 1
    /\ status.lastError.kind = "Insert failed"
    /\ loc[Sched].failed = <<>>
    /\ status.lastSuccessAt = status.lastRunFinishedAt

\* C5: at the end of a run that fetched its campaign list, lastSuccessAt
\* equals the run's lastRunFinishedAt if and only if no campaign failed in
\* the run, whatever the number of failed inserts; if a campaign failed,
\* lastSuccessAt is what it was before the run.
SuccessIffNoCampaignError ==
    [][(RunEnds /\ loc'[Sched].fetched) =>
          /\ status'.lastRunFinishedAt = nowIso
          /\ (status'.lastSuccessAt = status'.lastRunFinishedAt) <=> (loc'[Sched].failed = <<>>)
          /\ (loc'[Sched].failed # <<>>) => status'.lastSuccessAt = loc'[Sched].successAtStart]_vars

\* C5 witness: a run with a failed campaign ended after an earlier run had
\* succeeded: lastSuccessAt is still the earlier run's finish time.
SuccessIffNoCampaignErrorWitness ==
    /\ pc[Sched] = "settled"
    /\ loc[Sched].fetched
    /\ loc[Sched].failed # <<>>
    /\ status.lastSuccessAt # Null
    /\ status.lastSuccessAt < status.lastRunFinishedAt

\* C6: no error escapes runOnce(): every invocation settles normally; when a
\* run ends on a top-level failure (before its campaign list was fetched)
\* lastError, lastErrorAt and lastRunFinishedAt are set and lastSuccessAt is
\* unchanged.
NoErrorEscapes ==
    [][/\ result'[Sched] # "raised"
       /\ (RunEnds /\ ~loc'[Sched].fetched) =>
              /\ status'.lastError # NoError
              /\ status'.lastErrorAt # Null
              /\ status'.lastRunFinishedAt # Null
              /\ status'.lastSuccessAt = loc'[Sched].successAtStart]_vars

\* C6 witness: a run aborted on a failed campaign-list query after an earlier
\* run had succeeded.
NoErrorEscapesWitness ==
    /\ pc[Sched] = "settled"
    /\ result[Sched] = "aborted"
    /\ status.lastError.kind = "query failed"
    /\ status.lastSuccessAt # Null

\* C7: every run that sets running to true sets it back to false, however
\* the run ends, provided every storage and remote-API call returns or fails.
RunningIsReleased == status.running ~> ~status.running

\* C7 witness: a run with a failed campaign and a failed insert has ended
\* and running is false again.
RunningIsReleasedWitness ==
    /\ pc[Sched] = "settled"
    /\ ~status.running
    /\ loc[Sched].failed # <<>>
    /\ status.logInsertErrors > 0

\* C8: the first run starts from runLoop's first call, with no timer before
\* it; the timer is armed only once the previous invocation has settled, for
\* the fixed delay after that; it fires only when the delay has elapsed and
\* no run is in progress; so the guard's overlap branch is never taken.
SchedulerOrdering ==
    [][/\ (pc[Sched] = "idle" /\ pc'[Sched] # "idle") =>
              /\ timerDue = Null
              /\ status'.lastRunStartedAt = nowIso
       /\ (pc[Sched] # "timer" /\ pc'[Sched] = "timer") =>
              /\ pc[Sched] = "settled"
              /\ ~status.running
              /\ timerDue' = nowIso + MinDelay
       /\ (pc[Sched] = "timer" /\ pc'[Sched] # "timer") =>
              /\ ~status.running
              /\ nowIso >= timerDue
              /\ status.lastRunFinishedAt # Null
              /\ nowIso >= status.lastRunFinishedAt + MinDelay
              /\ status'.lastRunStartedAt = nowIso
       /\ result'[Sched] # "skipped"
       /\ status'.lastError.kind # "Skipped: previous run still in progress"]_vars

\* C8 witness: a run started by the timer is in progress; the run before it
\* succeeded at least the fixed delay earlier.
SchedulerOrderingWitness ==
    /\ pc[Sched] \in InRun
    /\ status.lastSuccessAt # Null
    /\ status.lastRunStartedAt >= status.lastSuccessAt + MinDelay

\* C9: after every settled run, failed or not, the timer is armed, and once
\* its delay has elapsed the next run is started (as long as the delay ends
\* within the modelled time).
SchedulerLiveness ==
    /\ (pc[Sched] = "settled") ~> (pc[Sched] = "timer")
    /\ (pc[Sched] = "timer" /\ timerDue <= MaxClock) ~> (pc[Sched] \in InRun \cup {"settled"})

\* C9 witness: a new run has started although the run before it, which
\* inserted logs, did not succeed.
SchedulerLivenessWitness ==
    /\ pc[Sched] = "awaitPool"
    /\ status.lastLogCreatedAt # Null
    /\ status.lastSuccessAt = Null

\* C10: at every point after a run has fetched its campaign list,
\* progressPercent is 100 if and only if campaignsProcessed equals
\* campaignsTotal, the empty list included.
ProgressHundredIffAllAttempted ==
    loc[Sched].fetched =>
        (status.progressPercent = 100 <=> status.campaignsProcessed = status.campaignsTotal)

\* the example run: three campaigns with ids 1, 2, 3; the log fetch of
\* campaign 2 throws; campaigns 1 and 3 return two logs each, all inserted
ExampleRun ==
    LET item == mapLog(5)
        st0 == [ResetRun(InitStatus) EXCEPT !.campaignsTotal = 3]
        f0 == RunLoopFrom(st0, [InitLoc EXCEPT !.campaigns = <<1, 2, 3>>, !.fetched = TRUE])
        f1 == LogsArrived(f0.st, f0.l, 2)
        f2 == InsertDone(f1.st, f1.l, item)
        f3 == InsertDone(f2.st, f2.l, item)
        f4 == CampaignFailed(f3.st, f3.l, "API error")
        f5 == LogsArrived(f4.st, f4.l, 2)
        f6 == InsertDone(f5.st, f5.l, item)
    IN InsertDone(f6.st, f6.l, item)

\* C11: at the end of a run that fetched its campaign list, logsInserted is
\* the number of inserts that succeeded, logInsertErrors the number of
\* inserts that threw, and their sum the number of records mapped from the
\* responses of the campaigns whose log fetch succeeded; a campaign whose
\* fetch throws changes neither counter.  In the example run (3 campaigns,
\* the fetch of campaign 2 throws, campaigns 1 and 3 have 2 logs each, all
\* inserted) the run ends with campaignsTotal 3, campaignsProcessed 3,
\* logsInserted 4, logInsertErrors 0, lastError that of campaign 2,
\* lastSuccessAt unchanged and progressPercent 100.
RunEndCounters ==
    /\ ExampleRun.pc = "settled"
    /\ ExampleRun.result = "finished"
    /\ ExampleRun.st.campaignsTotal = 3
    /\ ExampleRun.st.campaignsProcessed = 3
    /\ ExampleRun.st.logsInserted = 4
    /\ ExampleRun.st.logInsertErrors = 0
    /\ ExampleRun.st.lastError = Err("Campaign failed", 2, "API error")
    /\ ExampleRun.st.lastSuccessAt = InitStatus.lastSuccessAt
    /\ ExampleRun.st.progressPercent = 100
    /\ ~ExampleRun.st.running
    /\ [][/\ (RunEnds /\ loc'[Sched].fetched) =>
                 /\ status'.logsInserted = loc'[Sched].okInserts
                 /\ status'.logInsertErrors = loc'[Sched].badInserts
                 /\ status'.logsInserted + status'.logInsertErrors = loc'[Sched].mapped
          /\ LogsFailed(Sched) =>
                 /\ status'.logsInserted = status.logsInserted
                 /\ status'.logInsertErrors = status.logInsertErrors
                 /\ loc'[Sched].mapped = loc[Sched].mapped]_vars

\* C11 witness: a run over two campaigns has ended; the fetch of the first
\* threw, the second returned two logs of which one was inserted and one
\* was not.
RunEndCountersWitness ==
    /\ pc[Sched] = "settled"
    /\ loc[Sched].campaigns = <<1, 1>>
    /\ loc[Sched].failed = <<1>>
    /\ loc[Sched].mapped = 2
    /\ status.logsInserted = 1
    /\ status.logInsertErrors = 1
    /\ status.campaignsProcessed = 2

\* C12: GET /health and GET /status change no field of the status object
\* and nothing else of the program (no run starts, no connection is opened,
\* no timer is touched); they are answered at every await point of a run in
\* progress, without waiting for it, with the values the status object has
\* at that moment; and every /health response is 200 with ok = true,
\* during and after failed runs too.
PureReads ==
    /\ [][(GetHealth \/ GetStatus) =>
              /\ status' = status
              /\ pc' = pc
              /\ loc' = loc
              /\ poolPromise' = poolPromise
              /\ timerDue' = timerDue
              /\ reply'.code = 200]_vars
    /\ [](reply.route = "/health" =>
              /\ reply.body.ok
              /\ reply.body = healthBody(status))
    /\ [](reply.route = "/status" => reply.body = status)
    /\ []((pc[Sched] \in InRun /\ reply.route = "none") =>
              (ENABLED GetHealth /\ ENABLED GetStatus))

\* C12 witness: /health has answered ok in the middle of a run, after a
\* campaign of that run failed.
PureReadsWitness ==
    /\ reply.route = "/health"
    /\ reply.body.ok
    /\ reply.body.running
    /\ pc[Sched] = "awaitLogs"
    /\ status.lastError.kind = "Campaign failed"

\* caller p's invocation records a campaign-level failure in this step
CampaignFails(p) == Len(loc'[p].failed) > Len(loc[p].failed)

\* C13: lastError and lastErrorAt hold the most recent failure, whatever its
\* kind: a step in which a call is turned away, a run aborts, a campaign
\* fails or an insert fails leaves that failure (the last one of the step)
\* in lastError with lastErrorAt = now; every other step of a run, a
\* successful insert, a successful campaign and the finalization included,
\* leaves both as they were; they are null together, and become null only
\* in the reset step of an invocation that passes the guard.
LastErrorKept ==
    [][/\ status'.lastError = NoError <=> status'.lastErrorAt = Null
       /\ (status.lastError # NoError /\ status'.lastError = NoError) =>
              \E p \in Callers :
                  Calls(p) /\ ~status.running /\ status'.lastRunStartedAt = nowIso
       /\ \A p \in Callers :
              /\ (Calls(p) /\ status.running) =>
                     status'.lastError.kind = "Skipped: previous run still in progress"
              /\ (Calls(p) /\ ~status.running) =>
                     status'.lastError = IF token THEN NoError
                                         ELSE Err("Missing ZAP_API_TOKEN", Null, "")
              /\ PoolRejected(p) => status'.lastError.kind = "connect failed"
              /\ CampaignsFailed(p) => status'.lastError.kind = "query failed"
              /\ CampaignFails(p) =>
                     /\ status'.lastError.kind = "Campaign failed"
                     /\ status'.lastError.id = loc'[p].campaigns[loc'[p].failed[Len(loc'[p].failed)]]
              /\ (InsertFail(p) /\ ~CampaignFails(p)) =>
                     status'.lastError.kind = "Insert failed"
              /\ (PoolRejected(p) \/ CampaignsFailed(p) \/ CampaignFails(p)
                    \/ InsertFail(p) \/ (Calls(p) /\ (status.running \/ ~token))) =>
                     status'.lastErrorAt = nowIso
              /\ ((PoolResolved(p) \/ CampaignsFetched(p) \/ LogsFetched(p) \/ InsertOk(p))
                    /\ ~CampaignFails(p)) =>
                     /\ status'.lastError = status.lastError
                     /\ status'.lastErrorAt = status.lastErrorAt]_vars

\* C13 witness: a run has ended successfully and lastError still holds the
\* insert failure of its first campaign, from before the successful inserts
\* that followed it.
LastErrorKeptWitness ==
    /\ pc[Sched] = "settled"
    /\ result[Sched] = "finished"
    /\ loc[Sched].campaigns = <<1, 1>>
    /\ loc[Sched].badInserts = 1
    /\ loc[Sched].okInserts > 0
    /\ status.lastError.kind = "Insert failed"
    /\ status.lastErrorAt < status.lastRunFinishedAt
    /\ status.lastSuccessAt = status.lastRunFinishedAt

\* C14: in every state, mid-run and after a top-level failure included, and
\* in every /status response, campaignsProcessed <= campaignsTotal; within a
\* run the assignments to campaignsProcessed alternate with the campaigns'
\* processing attempts: after the attempt of campaign k, failed or not, and
\* before campaign k + 1 starts, campaignsProcessed goes from k - 1 to k,
\* and it is not assigned otherwise.
ProcessedStepsByOne ==
    /\ status.campaignsProcessed <= status.campaignsTotal
    /\ reply.route = "/status" => reply.body.campaignsProcessed <= reply.body.campaignsTotal
    /\ (pc[Sched] \in InRun \cup {"settled"} /\ result[Sched] # "skipped") =>
           LET trace == loc[Sched].trace
           IN /\ \A k \in 1 .. Len(trace) :
                     trace[k] = IF k % 2 = 1 THEN Attempt((k + 1) \div 2)
                                             ELSE Processed(k \div 2)
              /\ status.campaignsProcessed = Len(trace) \div 2
              /\ Len(trace) % 2 = 1 <=> pc[Sched] \in {"awaitLogs", "awaitInsert"}

\* C14 witness: /status is read in the middle of a run over two campaigns,
\* after the first campaign failed and while the second is being processed.
ProcessedStepsByOneWitness ==
    /\ reply.route = "/status"
    /\ reply.body.campaignsProcessed = 1
    /\ reply.body.campaignsTotal = 2
    /\ pc[Sched] = "awaitInsert"
    /\ loc[Sched].failed = <<1>>
    /\ Len(loc[Sched].trace) = 3

\* the larger of two timestamps, of which either may be null
Latest(a, b) == IF a = Null THEN b ELSE IF b = Null THEN a ELSE Max(a, b)

\* C15: at every point of a run lastLogCreatedAt is the maximum created_at
\* over the logs inserted so far in this run: it is null as long as the run
\* has inserted no log, each successful insert makes it the later of its
\* value and the inserted log's created_at, and no step of the run lowers it.
LastLogCreatedAtOfThisRun ==
    /\ []((pc[Sched] \in InRun /\ loc[Sched].okInserts = 0) =>
              status.lastLogCreatedAt = Null)
    /\ [][/\ \A l \in RawCreatedAt :
                  (/\ pc[Sched] = "awaitInsert"
                   /\ Install(Sched, InsertDone(status, loc[Sched], mapLog(l)))) =>
                      status'.lastLogCreatedAt =
                          Latest(status.lastLogCreatedAt, mapLog(l).createdAt)
          /\ (pc[Sched] \in InRun /\ status.lastLogCreatedAt # Null) =>
                 status'.lastLogCreatedAt >= status.lastLogCreatedAt]_vars

\* C16: without the API token a run that passes the guard aborts in the step
\* that starts it, before any I/O: the storage handle is not asked for (and
\* so never is while the token is missing), the campaign list is not
\* queried, the remote API is not called and nothing is inserted;
\* campaignsTotal and campaignsProcessed stay 0, lastError is the
\* missing-token error, lastRunFinishedAt is set and running is false again.
MissingTokenAborts ==
    /\ [](~token => poolPromise = "null")
    /\ [][(Calls(Sched) /\ ~status.running /\ ~token) =>
              /\ pc'[Sched] = "settled"
              /\ result'[Sched] = "aborted"
              /\ poolPromise' = poolPromise
              /\ ~loc'[Sched].fetched
              /\ loc'[Sched].apiCalls = <<>>
              /\ loc'[Sched].mapped = 0
              /\ status'.campaignsTotal = 0
              /\ status'.campaignsProcessed = 0
              /\ status'.lastError = Err("Missing ZAP_API_TOKEN", Null, "")
              /\ status'.lastErrorAt = nowIso
              /\ status'.lastRunStartedAt = nowIso
              /\ status'.lastRunFinishedAt = nowIso
              /\ ~status'.running]_vars

\* C16 witness: the second run of a process without token has aborted, and
\* the storage handle was never asked for.
MissingTokenAbortsWitness ==
    /\ ~token
    /\ pc[Sched] = "settled"
    /\ result[Sched] = "aborted"
    /\ status.lastError.kind = "Missing ZAP_API_TOKEN"
    /\ status.lastRunStartedAt = MinDelay
    /\ ~status.running
    /\ poolPromise = "null"

\* a campaign row has an id: the id is neither absent nor empty
HasId(id) == id # Null /\ id # 0

\* C17: in a run that fetched its list, the remote API has been called
\* exactly for the campaigns attempted so far that have an id, with their
\* ids and in list order, and for no campaign without id; a campaign
\* without id is a failed campaign of the run (the run is flagged, so its
\* end leaves lastSuccessAt as it was), is passed without any await, with
\* currentCampaignId null, lastError the missing-id failure and
\* campaignsProcessed counting it, and the loop goes on to the next
\* campaign; a run whose campaigns all lack an id maps and inserts nothing.
MissingIdIsCampaignFailure ==
    (pc[Sched] \in InRun \cup {"settled"} /\ loc[Sched].fetched) =>
        LET l == loc[Sched]
            n == Len(l.attempts)
            tried == SubSeq(l.campaigns, 1, n)
        IN /\ l.apiCalls = SelectSeq(tried, HasId)
           /\ \A k \in 1 .. n :
                  ~HasId(tried[k]) =>
                      /\ \E j \in 1 .. Len(l.failed) : l.failed[j] = k
                      /\ l.runHadError
           /\ n > 0 =>
                  status.currentCampaignId = IF HasId(tried[n]) THEN tried[n] ELSE Null
           /\ (n > 0 /\ ~HasId(tried[n])) =>
                  /\ pc[Sched] = "settled"
                  /\ status.lastError = Err("Campaign failed", tried[n], "Campaign missing id")
                  /\ status.campaignsProcessed = n
           /\ (n > 1 /\ ~HasId(tried[n - 1]) /\ pc[Sched] = "awaitLogs") =>
                  /\ status.lastError = Err("Campaign failed", tried[n - 1], "Campaign missing id")
                  /\ status.campaignsProcessed = n - 1
           /\ pc[Sched] = "settled" =>
                  /\ n = Len(l.campaigns)
                  /\ status.campaignsProcessed = n
                  /\ (\E k \in 1 .. n : ~HasId(tried[k])) =>
                         status.lastSuccessAt = l.successAtStart
           /\ (\A k \in 1 .. n : ~HasId(tried[k])) =>
                  /\ l.mapped = 0
                  /\ status.logsInserted = 0
                  /\ status.logInsertErrors = 0

\* C17 witness: a run over a campaign without id and a campaign with id 1
\* has ended: the API was called once, with id 1, and a log of that
\* campaign was inserted.
MissingIdIsCampaignFailureWitness ==
    /\ pc[Sched] = "settled"
    /\ loc[Sched].campaigns = <<0, 1>>
    /\ loc[Sched].apiCalls = <<1>>
    /\ loc[Sched].failed = <<1>>
    /\ status.campaignsProcessed = 2
    /\ status.logsInserted = 1
    /\ status.lastError = Err("Campaign failed", 0, "Campaign missing id")

\* the integer nearest to percent / 100 * 20 (no integer percent is halfway)
NearestCell(percent) == CHOOSE f \in 0 .. 20 : 10 * f - 2 * percent \in -5 .. 5

\* C18: whatever the percent (every integer in 0 .. 100 occurs in the run
\* over BarTotal campaigns), after the reset and after every campaign the
\* stored progressBar is the rendering of the stored progressPercent: '[',
\* then exactly 20 cells, then ']'; the first round(percent / 100 * 20)
\* cells are '#', the others '-'; so 0 gives 20 empty cells, 50 gives 10
\* filled and 10 empty, 100 gives 20 filled.
ProgressBarRendering ==
    LET bar == status.progressBar
        percent == status.progressPercent
    IN /\ percent \in 0 .. 100
       /\ Len(bar) = 22
       /\ bar[1] = "["
       /\ bar[22] = "]"
       /\ \A k \in 1 .. 20 : bar[k + 1] = IF k <= NearestCell(percent) THEN "#" ELSE "-"
       /\ percent = 0 => bar = <<"[">> \o [k \in 1 .. 20 |-> "-"] \o <<"]">>
       /\ percent = 50 => bar = <<"[">> \o [k \in 1 .. 10 |-> "#"]
                                       \o [k \in 1 .. 10 |-> "-"] \o <<"]">>
       /\ percent = 100 => bar = <<"[">> \o [k \in 1 .. 20 |-> "#"] \o <<"]">>

\* C18 witness: half of the campaigns are processed and the bar is half
\* filled.
ProgressBarRenderingWitness ==
    /\ status.campaignsProcessed * 2 = status.campaignsTotal
    /\ status.progressPercent = 50
    /\ status.progressBar[11] = "#"
    /\ status.progressBar[12] = "-"

\* what a reader takes for a run in progress: started and not finished
StartedNotFinished(body) ==
    body.lastRunStartedAt # Null /\ body.lastRunFinishedAt = Null

\* C19: in every state between two callbacks, and in every /health and
\* /status response, running is true if and only if lastRunStartedAt is
\* set and lastRunFinishedAt is null.
RunningIffStartedNotFinished ==
    /\ status.running <=> StartedNotFinished(status)
    /\ reply.route # "none" => (reply.body.running <=> StartedNotFinished(reply.body))

\* C19 witness: /health is read in the middle of the second run of the
\* process: the finish time of the first run has been cleared.
RunningIffStartedNotFinishedWitness ==
    /\ reply.route = "/health"
    /\ reply.body.running
    /\ reply.body.lastRunStartedAt = MinDelay
    /\ reply.body.lastRunFinishedAt = Null
    /\ pc[Sched] = "awaitInsert"

\* C20: the storage connection is attempted at most once in the life of the
\* process (poolPromise only goes from null to pending, at the first run
\* that has the token, and from pending to its outcome), and the outcome is
\* kept, a failure too: once the connection has failed no run gets past
\* await getPool(), every run that ends has aborted with the connection
\* error without touching poolPromise, campaignsTotal stays 0 and
\* lastSuccessAt stays null.
ConnectionMemoized ==
    /\ [](poolPromise = "rejected" =>
              /\ pc[Sched] \notin {"awaitCampaigns", "awaitLogs", "awaitInsert"}
              /\ status.campaignsTotal = 0
              /\ status.lastSuccessAt = Null)
    /\ [][/\ poolPromise' # poolPromise =>
                  \/ /\ poolPromise = "null"
                     /\ poolPromise' = "pending"
                     /\ Calls(Sched)
                     /\ token
                  \/ /\ poolPromise = "pending"
                     /\ poolPromise' \in {"resolved", "rejected"}
          /\ (Calls(Sched) /\ poolPromise = "rejected") =>
                  /\ poolPromise' = "rejected"
                  /\ pc'[Sched] = "awaitPool"
          /\ (RunEnds /\ poolPromise = "rejected") =>
                  /\ result'[Sched] = "aborted"
                  /\ status'.lastError = Err("connect failed", Null, "")
                  /\ status'.lastErrorAt = nowIso
                  /\ ~loc'[Sched].fetched]_vars

\* C20 witness: the second run of the process has aborted with the error of
\* the connection attempt that failed during the first run.
ConnectionMemoizedWitness ==
    /\ poolPromise = "rejected"
    /\ pc[Sched] = "settled"
    /\ result[Sched] = "aborted"
    /\ status.lastError.kind = "connect failed"
    /\ status.lastRunStartedAt = MinDelay
    /\ status.campaignsTotal = 0
    /\ status.lastSuccessAt = Null

====
